---- MODULE Spec2Model ----
(***************************************************************************)
(* Baseline estimation of the solar curtailment analysis                   *)
(* (src/src/polyfit.py, class Polyfit).                                    *)
(*                                                                         *)
(* A day series (pandas DataFrame) is a sequence of rows                   *)
(* [ts |-> seconds, power |-> watts], in index order.  A Python value that *)
(* may be None is a tagged record: None, or Some(v).  An exception leaves  *)
(* the call at pc = "raised" with exc naming its type.                     *)
(*                                                                         *)
(* Four specifications share the actions:                                  *)
(*   Spec          a caller invokes check_polyfit(data_site, ac_cap)       *)
(*   SpecQuality   the same call, on days of up to MaxSamples samples      *)
(*   SpecEnvelope  a caller invokes filter_power_data_index(df)            *)
(*   SpecGradient  a caller invokes filter_data_limited_gradients(p, t)    *)
(* and a fifth, SpecCompute, is one run of compute() of                     *)
(* curtailment_calculation.py, in which check_polyfit is one step.         *)
(***************************************************************************)
EXTENDS Integers, Sequences, FiniteSets, TLC

\* ------------------------------------------------------------ bounds
MaxLen == 5        \* samples in the day series given to check_polyfit
MaxSubset == 5     \* samples in the subset given to filter_power_data_index
MaxPoints == 7     \* points given to filter_data_limited_gradients
MaxSamples == 52   \* daylight samples of a long day (SpecQuality)

\* --------------------------------------------------- program constants
LIMIT_DAY_POWER == 10
POWER_FLOOR == 300
ANGLE_LOWER_LIMIT == 80
ANGLE_UPPER_LIMIT == 90
WIDER_ANGLE_LOWER_LIMIT == 70
CONTINUANCE_LIMIT == 2
ERROR_LIMIT == 50
NEAR_POINTS_LIMIT == 50
SECONDS_PER_DAY == 86400

MIN_LEN == 2
RESAMPLE_LEN == 2000
FIRST_DAY_HOUR == 7
LAST_DAY_HOUR == 17

\* ------------------------------------------------------- input domains
\* Measured powers: at the daylight threshold, between the two thresholds
\* (at the 300 W floor), and above the floor (two of them 1 W apart).
PowerSet == {10, 300, 400, 500, 501}
\* Powers of a subset that has passed the > 300 W restriction.
EnvelopePowers == {400, 450, 500, 501}
\* Timestamps (seconds of the day): one-minute cadence and two long gaps.
TimeGrid == {0, 60, 120, 180, 20000, 60000}
\* Rated AC capacity of the inverter.
AcCaps == {600}
\* Values the fitted quadratic can take at a sample (below 0, inside the
\* rated range, above the rated capacity).
RawExpected == {-100, 400, 700}
\* Slope angles (degrees) of a transition handed to the gradient filter.
AngleSet == {60, 70, 75, 80, 85, 90}

\* Timestamps at millisecond resolution (milliseconds of the day): samples
\* sharing a whole second, samples in consecutive seconds, and minutes apart.
FineTimeGrid == {0, 200, 700, 1000, 1900, 60000, 120500}

\* Hours of the day at which the file read by compute has samples.
HourSet == {6, 7, 17, 18}
\* Frames site_organize hands on: the number of rows and the number of
\* one-minute bins they span (5 s and 60 s cadence, around the limits of
\* check_data_size and resample_in_minute).
FrameSizes == {<<0, 0>>, <<2, 2>>, <<3, 3>>, <<60, 5>>, <<2000, 167>>,
               <<2001, 167>>, <<17280, 1440>>}
\* Energies (kWh) the curtailment detectors report.
TrippingEnergies == {0, 5}
VVarEnergies == {0, 3}
VWattEnergies == {0, 2}
GeneratedEnergies == {0, 10}

\* ------------------------------------------------------ Python values
None == [tag |-> "None"]
Some(v) == [tag |-> "some", val |-> v]
IsNone(x) == x.tag = "None"

\* The value of exc while no exception has been raised.
NoException == [type |-> "none", where |-> "none"]

Abs(x) == IF x < 0 THEN -x ELSE x

RECURSIVE SortedSeq(_)
SortedSeq(S) ==
    IF S = {} THEN <<>>
    ELSE LET m == CHOOSE x \in S : \A y \in S : x <= y
         IN  <<m>> \o SortedSeq(S \ {m})

Reverse(s) == [k \in 1..Len(s) |-> s[Len(s) + 1 - k]]

\* Mutant: the selection comes out in reverse order.
RECURSIVE ApplyMask_Reversed(_, _)
ApplyMask_Reversed(s, mask) ==
    IF Len(s) = 0 \/ Len(mask) = 0 THEN <<>>
    ELSE ApplyMask_Reversed(Tail(s), Tail(mask))
         \o (IF Head(mask) THEN <<Head(s)>> ELSE <<>>)

\* pandas boolean-mask selection s[mask] (the lengths agree).
RECURSIVE ApplyMask(_, _)
ApplyMask(s, mask) ==
    IF Len(s) = 0 \/ Len(mask) = 0 THEN <<>>
    ELSE (IF Head(mask) THEN <<Head(s)>> ELSE <<>>) \o ApplyMask(Tail(s), Tail(mask))

Powers(df) == [k \in 1..Len(df) |-> df[k].power]
Times(df) == [k \in 1..Len(df) |-> df[k].ts]

VARIABLES
    entry,                \* the method the caller invoked
    pc,                   \* position inside the call
    exc,                  \* the exception raised, "none" if none
    data_in,              \* the caller's day series, as passed
    index_name,           \* the name of the index of the caller's frame
    data_site,            \* check_polyfit's data_site (None or Some(rows))
    columns,              \* the columns of data_site
    ac_cap,
    sunrise, sunset,
    data_site_more_300,   \* df given to filter_power_data_index
    power_array, time_array,
    filter_array,         \* the keep-mask last built
    n, i, g, runningCount, addFlag, gradientsCompliance,
    angles, addFlags,     \* g and addFlag of the iterations done so far
    polyfit,              \* None, or Some(number of points fitted)
    power_expected,
    is_good_polyfit_quality,
    \* compute() of curtailment_calculation.py
    data,                 \* the frame read from the file: [len, hours]
    size_is_ok,
    site_organized,       \* the frame site_organize returned: [len, minutes]
    site_frame,           \* compute's data_site: [len, minutes, resampled,
                          \*   power_expected]
    is_clear_sky_day,
    tripping_curt_energy, vvar_curt_energy, vwatt_curt_energy,
    energy_generated, energy_generated_expected, estimation_method,
    stages                \* the stages of compute run so far, in order

vars == <<entry, pc, exc, data_in, index_name, data_site, columns, ac_cap, sunrise, sunset,
          data_site_more_300, power_array, time_array, filter_array,
          n, i, g, runningCount, addFlag, gradientsCompliance, angles, addFlags,
          polyfit, power_expected, is_good_polyfit_quality,
          data, size_is_ok, site_organized, site_frame, is_clear_sky_day,
          tripping_curt_energy, vvar_curt_energy, vwatt_curt_energy,
          energy_generated, energy_generated_expected, estimation_method,
          stages>>

computeVars == <<data, size_is_ok, site_organized, site_frame, is_clear_sky_day,
                 tripping_curt_energy, vvar_curt_energy, vwatt_curt_energy,
                 energy_generated, energy_generated_expected, estimation_method,
                 stages>>

gradVars == <<n, i, g, runningCount, addFlag, gradientsCompliance, angles, addFlags>>
fitVars == <<polyfit, power_expected, is_good_polyfit_quality>>

\* ------------------------------------------------ filter_sunrise_sunset
\* Mutant: the daylight threshold taken as inclusive.
AboveDayLimit_Inclusive(rows) ==
    SelectSeq(rows, LAMBDA r : r.power >= LIMIT_DAY_POWER)

AboveDayLimit(rows) == SelectSeq(rows, LAMBDA r : r.power > LIMIT_DAY_POWER)

\* Mutant: the sunrise row itself kept.
AfterSunrise_Inclusive(rows, rise) == SelectSeq(rows, LAMBDA r : r.ts >= rise)

AfterSunrise(rows, rise) == SelectSeq(rows, LAMBDA r : r.ts > rise)

\* Mutant: the sunset row itself kept.
BeforeSunset_Inclusive(rows, set) == SelectSeq(rows, LAMBDA r : r.ts <= set)

BeforeSunset(rows, set) == SelectSeq(rows, LAMBDA r : r.ts < set)

filter_sunrise_sunset(df) ==
    IF IsNone(df) \/ Len(df.val) = 0
    THEN [sunrise |-> None, sunset |-> None, df |-> None]
    ELSE LET tmp_df == AboveDayLimit(df.val)
         IN  IF Len(tmp_df) = 0
             THEN [sunrise |-> None, sunset |-> None, df |-> None]
             ELSE LET rise == tmp_df[1].ts
                      set == tmp_df[Len(tmp_df)].ts
                  IN  [sunrise |-> Some(rise), sunset |-> Some(set),
                       df |-> Some(BeforeSunset(AfterSunrise(df.val, rise), set))]

\* ---------------------------------------------- filter_power_data_index
RECURSIVE SeqMax(_)
SeqMax(s) == IF Len(s) = 1 THEN s[1]
             ELSE LET m == SeqMax(Tail(s)) IN IF s[1] > m THEN s[1] ELSE m

MaxIndices(df, m) == {k \in 1..Len(df) : df[k].power = m}

FirstIndex(S) == CHOOSE k \in S : \A j \in S : k <= j

LastIndex(S) == CHOOSE k \in S : \A j \in S : k >= j

\* Mutant: the last tied sample is raised instead of the first.
TieBreak_Last(df) ==
    LET m == SeqMax(Powers(df))
        tied == MaxIndices(df, m)
    IN  IF Cardinality(tied) > 1
        THEN [df EXCEPT ![LastIndex(tied)].power = @ + 1]
        ELSE df

\* df.loc[first_time_highest, 'power'] += 1 when the maximum is tied.
TieBreak(df) ==
    LET m == SeqMax(Powers(df))
        tied == MaxIndices(df, m)
    IN  IF Cardinality(tied) > 1
        THEN [df EXCEPT ![FirstIndex(tied)].power = @ + 1]
        ELSE df

\* Mutant: the running maximum is never raised.
RECURSIVE ForwardFilter_NoRunningMax(_, _, _, _)
ForwardFilter_NoRunningMax(pw, k, last_highest_power, max_daily_power) ==
    IF k > Len(pw) THEN <<>>
    ELSE LET keep == pw[k] > last_highest_power
         IN  IF pw[k] = max_daily_power THEN <<keep>>
             ELSE <<keep>> \o ForwardFilter_NoRunningMax(pw, k + 1, last_highest_power,
                                                        max_daily_power)

\* The first loop: walks forward, stops after the sample at the maximum.
RECURSIVE ForwardFilter(_, _, _, _)
ForwardFilter(pw, k, last_highest_power, max_daily_power) ==
    IF k > Len(pw) THEN <<>>
    ELSE LET keep == pw[k] > last_highest_power
             last == IF keep THEN pw[k] ELSE last_highest_power
         IN  IF pw[k] = max_daily_power THEN <<keep>>
             ELSE <<keep>> \o ForwardFilter(pw, k + 1, last, max_daily_power)

\* Mutant: a sample equal to the running maximum is kept.
RECURSIVE BackwardFilter_KeepsPlateau(_, _, _, _)
BackwardFilter_KeepsPlateau(pw, k, last_highest_power, max_daily_power) ==
    IF k < 1 THEN <<>>
    ELSE IF pw[k] = max_daily_power THEN <<>>
    ELSE LET keep == pw[k] >= last_highest_power
             last == IF keep THEN pw[k] ELSE last_highest_power
         IN  <<keep>> \o BackwardFilter_KeepsPlateau(pw, k - 1, last, max_daily_power)

\* The second loop: walks backward, stops before the sample at the maximum.
\* The flags are in the order appended (last sample first).
RECURSIVE BackwardFilter(_, _, _, _)
BackwardFilter(pw, k, last_highest_power, max_daily_power) ==
    IF k < 1 THEN <<>>
    ELSE IF pw[k] = max_daily_power THEN <<>>
    ELSE LET keep == pw[k] > last_highest_power
             last == IF keep THEN pw[k] ELSE last_highest_power
         IN  <<keep>> \o BackwardFilter(pw, k - 1, last, max_daily_power)

EnvelopeMask(df) ==
    LET pw == Powers(df)
        max_daily_power == SeqMax(pw)
        filter_first_half == ForwardFilter(pw, 1, 0, max_daily_power)
        filter_second_half == BackwardFilter(pw, Len(pw), 0, max_daily_power)
    IN  filter_first_half \o Reverse(filter_second_half)

\* The two arrays returned, or the IndexError pandas raises for a boolean
\* mask whose length differs from the frame's.
filter_power_data_index(df) ==
    LET tb == TieBreak(df)
        mask == EnvelopeMask(tb)
    IN  [df |-> tb,
         filter_array |-> mask,
         ok |-> Len(mask) = Len(tb),
         power_array |-> ApplyMask(Powers(tb), mask),
         time_array |-> ApplyMask(Times(tb), mask)]

\* ---------------------------------------- filter_data_limited_gradients
\* get_single_date_time: the timestamp text "%Y-%m-%d %H:%M:%S" as a day
\* number; a difference of two is seconds / 86400.
\* abs(degrees(atan(dP / dt_days))), as the representative of its class:
\* the code compares g with 70, 80, 85 and 90 only.  The slope is taken in
\* thousandths (tan 70 = 2.747, tan 80 = 5.671, tan 85 = 11.430).  With
\* dt = 0 numpy divides to inf (90 degrees) or, for 0 / 0, to nan, which
\* fails every comparison of the loop as 0 does.
\* strftime('%Y-%m-%d %H:%M:%S') of a timestamp given in milliseconds of
\* the day: the text has no fraction field, so what strptime reads back in
\* get_single_date_time is the whole second (here in seconds of the day).
strftime(t) == t \div 1000

SlopeMilli(dP, dt) ==
    LET num == Abs(dP) * SECONDS_PER_DAY
        q == num \div dt
    IN  IF q >= 12 THEN 12000
        ELSE q * 1000 + ((num % dt) * 1000) \div dt

AngleOf(dP, dt) ==
    IF dt = 0 THEN (IF dP = 0 THEN 0 ELSE 90)
    ELSE IF dP = 0 THEN 0
    ELSE LET s == SlopeMilli(dP, dt)
         IN  IF s > 11430 THEN 88
             ELSE IF s > 5671 THEN 83
             ELSE IF s > 2747 THEN 75
             ELSE 60

\* Mutant: a rejection leaves the counter as it is.
GradientStep_NoReset(gv, rc) ==
    IF gv > ANGLE_LOWER_LIMIT /\ gv < ANGLE_UPPER_LIMIT
    THEN [addFlag |-> TRUE, runningCount |-> rc + 1]
    ELSE IF rc > CONTINUANCE_LIMIT /\ gv > WIDER_ANGLE_LOWER_LIMIT
    THEN [addFlag |-> TRUE, runningCount |-> rc]
    ELSE [addFlag |-> FALSE, runningCount |-> rc]

\* Mutant: the relaxed band opens once the counter has reached 2.
GradientStep_RelaxedAtLimit(gv, rc) ==
    IF gv > ANGLE_LOWER_LIMIT /\ gv < ANGLE_UPPER_LIMIT
    THEN [addFlag |-> TRUE, runningCount |-> rc + 1]
    ELSE IF rc >= CONTINUANCE_LIMIT /\ gv > WIDER_ANGLE_LOWER_LIMIT
    THEN [addFlag |-> TRUE, runningCount |-> rc]
    ELSE [addFlag |-> FALSE, runningCount |-> 0]

\* Mutant: both bands closed at their lower ends.
GradientStep_ClosedBands(gv, rc) ==
    IF gv >= ANGLE_LOWER_LIMIT /\ gv < ANGLE_UPPER_LIMIT
    THEN [addFlag |-> TRUE, runningCount |-> rc + 1]
    ELSE IF rc > CONTINUANCE_LIMIT /\ gv >= WIDER_ANGLE_LOWER_LIMIT
    THEN [addFlag |-> TRUE, runningCount |-> rc]
    ELSE [addFlag |-> FALSE, runningCount |-> 0]

\* One iteration of the loop over consecutive points: the flag and the
\* counter after it.
GradientStep(gv, rc) ==
    IF gv > ANGLE_LOWER_LIMIT /\ gv < ANGLE_UPPER_LIMIT
    THEN [addFlag |-> TRUE, runningCount |-> rc + 1]
    ELSE IF rc > CONTINUANCE_LIMIT /\ gv > WIDER_ANGLE_LOWER_LIMIT
    THEN [addFlag |-> TRUE, runningCount |-> rc]
    ELSE [addFlag |-> FALSE, runningCount |-> 0]

\* Mutant: the first point is kept on its own count alone.
FirstKeep_OwnCountOnly(gc) == gc[1] = 1

\* Mutant: an interior point is kept only on a count of 2.
InteriorKeep_OnlyDouble(gc, k) == gc[k] = 2

\* Mutant: an interior point is kept on any compliance.
InteriorKeep_AnyCompliance(gc, k) == gc[k] >= 1

\* Mutant: the last point is held to the interior points' count of 2.
LastKeep_NeedsTwo(gc, m) == gc[m] = 2 /\ gc[m - 1] = 2

\* The keep-mask built from the compliance counts of m >= 1 points.
FirstKeep(gc) == gc[1] = 1 /\ gc[2] = 2

InteriorKeep(gc, k) ==
    \/ gc[k] = 2
    \/ gc[k] = 1 /\ (gc[k - 1] = 2 \/ gc[k + 1] = 2)

LastKeep(gc, m) == gc[m] = 1 /\ gc[m - 1] = 2

GradientMask(gc, m) ==
    <<FirstKeep(gc)>>
    \o [k \in 1..(m - 2) |-> InteriorKeep(gc, k + 1)]
    \o <<LastKeep(gc, m)>>

\* ------------------------------------------------------------- states
MakeSeries(S, pw) ==
    LET t == SortedSeq(S)
    IN  [k \in 1..Len(t) |-> [ts |-> t[k], power |-> pw[k]]]

\* Day series: strictly increasing whole-second timestamps, one row each
\* (curtailment_calculation.py cuts the timestamp text to whole seconds).
IsDaySeries(df) ==
    \E S \in SUBSET TimeGrid :
        /\ Cardinality(S) <= MaxLen
        /\ \E pw \in [1..Cardinality(S) -> PowerSet] : df = MakeSeries(S, pw)

\* Subsets above the 300 W floor, at one-minute cadence.
IsHighSubset(df) ==
    \E m \in 0..MaxSubset :
        \E pw \in [1..m -> EnvelopePowers] :
            df = [k \in 1..m |-> [ts |-> 60 * k, power |-> pw[k]]]

Zeros(m) == [k \in 1..m |-> 0]

Idle ==
    /\ exc = NoException
    /\ index_name = "Timestamp"
    /\ columns = {"power"}
    /\ sunrise = None /\ sunset = None
    /\ filter_array = <<>>
    /\ i = 0 /\ g = 0 /\ runningCount = 0 /\ addFlag = FALSE
    /\ angles = <<>> /\ addFlags = <<>>
    /\ polyfit = None /\ power_expected = <<>>
    /\ is_good_polyfit_quality = None

\* No run of compute: its variables keep these values.
ComputeIdle ==
    /\ data = None /\ size_is_ok = None
    /\ site_organized = None /\ site_frame = None
    /\ is_clear_sky_day = None
    /\ tripping_curt_energy = None
    /\ vvar_curt_energy = None /\ vwatt_curt_energy = None
    /\ energy_generated = None
    /\ energy_generated_expected = None /\ estimation_method = None
    /\ stages = <<>>

Init ==
    /\ Idle /\ ComputeIdle
    /\ entry = "check_polyfit" /\ pc = "check_polyfit"
    /\ IsDaySeries(data_in)
    /\ data_site = Some(data_in)
    /\ ac_cap \in AcCaps
    /\ data_site_more_300 = <<>>
    /\ power_array = <<>> /\ time_array = <<>>
    /\ n = 0 /\ gradientsCompliance = <<>>

\* A day of m samples between its sunrise and sunset rows, at one-minute
\* cadence: three samples above the 300 W floor (the points of the fit)
\* and low daylight samples after them.
LongDay(m) ==
    [k \in 1..(m + 2) |->
        [ts |-> 60 * (k - 1),
         power |-> IF k = 1 \/ k = m + 2 THEN 11
                   ELSE IF k = 3 THEN 500
                   ELSE IF k \in {2, 4} THEN 400
                   ELSE 20]]

InitQuality ==
    /\ Idle /\ ComputeIdle
    /\ entry = "check_polyfit" /\ pc = "check_polyfit"
    /\ \E m \in 0..MaxSamples : data_in = LongDay(m)
    /\ data_site = Some(data_in)
    /\ ac_cap \in AcCaps
    /\ data_site_more_300 = <<>>
    /\ power_array = <<>> /\ time_array = <<>>
    /\ n = 0 /\ gradientsCompliance = <<>>

InitEnvelope ==
    /\ Idle /\ ComputeIdle
    /\ entry = "filter_power_data_index" /\ pc = "subset"
    /\ IsHighSubset(data_in)
    /\ data_site = None
    /\ ac_cap \in AcCaps
    /\ data_site_more_300 = data_in
    /\ power_array = <<>> /\ time_array = <<>>
    /\ n = 0 /\ gradientsCompliance = <<>>

\* The points are opaque here (power_array and time_array hold their
\* positions); the angle of each transition is drawn when the loop reaches it.
InitGradient ==
    /\ Idle /\ ComputeIdle
    /\ entry = "filter_data_limited_gradients" /\ pc = "envelope"
    /\ data_in = <<>> /\ data_site = None
    /\ ac_cap \in AcCaps
    /\ data_site_more_300 = <<>>
    /\ \E m \in 0..MaxPoints :
          /\ power_array = [k \in 1..m |-> k]
          /\ time_array = [k \in 1..m |-> k]
    /\ n = 0 /\ gradientsCompliance = <<>>

\* The envelope handed back by line 104 for a day sampled at millisecond
\* resolution: strictly increasing timestamps, powers that are their own
\* envelope (data_in keeps the points as sampled).
InitSeconds ==
    /\ Idle /\ ComputeIdle
    /\ entry = "time_array.strftime" /\ pc = "indexed"
    /\ \E S \in SUBSET FineTimeGrid :
          /\ Cardinality(S) <= MaxLen
          /\ \E pw \in [1..Cardinality(S) -> EnvelopePowers] :
                /\ data_in = MakeSeries(S, pw)
                /\ S # {} => filter_power_data_index(data_in).power_array = pw
    /\ data_site = None
    /\ ac_cap \in AcCaps
    /\ data_site_more_300 = data_in
    /\ power_array = Powers(data_in) /\ time_array = Times(data_in)
    /\ n = 0 /\ gradientsCompliance = <<>>

\* An exception of type e raised inside function f.
Raise(e, f) ==
    /\ pc' = "raised"
    /\ exc' = [type |-> e, where |-> f]

\* ------------------------------------------------------------ actions
\* check_polyfit, lines 97-99.
CallFilterSunriseSunset ==
    /\ pc = "check_polyfit"
    /\ LET r == filter_sunrise_sunset(data_site)
       IN  /\ sunrise' = r.sunrise
           /\ sunset' = r.sunset
           /\ data_site' = r.df
    /\ index_name' = "ts"
    /\ pc' = "windowed"
    /\ UNCHANGED computeVars
    /\ UNCHANGED <<entry, exc, data_in, columns, ac_cap, data_site_more_300,
                   power_array, time_array, filter_array>>
    /\ UNCHANGED gradVars
    /\ UNCHANGED fitVars

\* Mutant: a sample at exactly the 300 W floor enters the subset.
AttachRelativePower_FloorInclusive ==
    /\ pc = "windowed"
    /\ IF IsNone(data_site)
       THEN /\ Raise("TypeError", "check_polyfit")
            /\ UNCHANGED <<columns, data_site_more_300>>
       ELSE /\ columns' = columns \cup {"power_relative"}
            /\ data_site_more_300' =
                   SelectSeq(data_site.val, LAMBDA r : r.power >= POWER_FLOOR)
            /\ pc' = "subset"
            /\ exc' = exc
    /\ UNCHANGED computeVars
    /\ UNCHANGED <<entry, index_name, data_in, data_site, ac_cap, sunrise, sunset,
                   power_array, time_array, filter_array>>
    /\ UNCHANGED gradVars
    /\ UNCHANGED fitVars

\* check_polyfit, lines 100-102: subscripting None raises TypeError.
AttachRelativePower ==
    /\ pc = "windowed"
    /\ IF IsNone(data_site)
       THEN /\ Raise("TypeError", "check_polyfit")
            /\ UNCHANGED <<columns, data_site_more_300>>
       ELSE /\ columns' = columns \cup {"power_relative"}
            /\ data_site_more_300' =
                   SelectSeq(data_site.val, LAMBDA r : r.power > POWER_FLOOR)
            /\ pc' = "subset"
            /\ exc' = exc
    /\ UNCHANGED computeVars
    /\ UNCHANGED <<entry, index_name, data_in, data_site, ac_cap, sunrise, sunset,
                   power_array, time_array, filter_array>>
    /\ UNCHANGED gradVars
    /\ UNCHANGED fitVars

\* check_polyfit line 104, filter_power_data_index lines 276-319:
\* max() of an empty column raises ValueError.
CallFilterPowerDataIndex ==
    /\ pc = "subset"
    /\ IF Len(data_site_more_300) = 0
       THEN /\ Raise("ValueError", "filter_power_data_index")
            /\ UNCHANGED <<data_site_more_300, power_array, time_array, filter_array>>
       ELSE LET r == filter_power_data_index(data_site_more_300)
            IN  /\ data_site_more_300' = r.df
                /\ filter_array' = r.filter_array
                /\ IF r.ok
                   THEN /\ power_array' = r.power_array
                        /\ time_array' = r.time_array
                        /\ pc' = IF entry = "filter_power_data_index"
                                 THEN "done" ELSE "envelope"
                        /\ exc' = exc
                   ELSE /\ Raise("IndexError", "filter_power_data_index")
                        /\ UNCHANGED <<power_array, time_array>>
    /\ UNCHANGED computeVars
    /\ UNCHANGED <<entry, index_name, data_in, data_site, columns, ac_cap, sunrise, sunset>>
    /\ UNCHANGED gradVars
    /\ UNCHANGED fitVars

\* check_polyfit lines 105-106 on timestamps finer than a second.
FormatTimeArray ==
    /\ pc = "indexed"
    /\ time_array' = [k \in 1..Len(time_array) |-> strftime(time_array[k])]
    /\ pc' = "envelope"
    /\ UNCHANGED computeVars
    /\ UNCHANGED <<entry, index_name, exc, data_in, data_site, columns, ac_cap, sunrise, sunset,
                   data_site_more_300, power_array, filter_array>>
    /\ UNCHANGED gradVars
    /\ UNCHANGED fitVars

\* check_polyfit lines 105-107, filter_data_limited_gradients lines 187-207.
GradientBegin ==
    /\ pc = "envelope"
    /\ n' = Len(power_array)
    /\ gradientsCompliance' = Zeros(Len(power_array))
    /\ runningCount' = 0
    /\ i' = 1
    /\ filter_array' = <<>>
    /\ pc' = "gradient_loop"
    /\ UNCHANGED computeVars
    /\ UNCHANGED <<entry, index_name, exc, data_in, data_site, columns, ac_cap, sunrise, sunset,
                   data_site_more_300, power_array, time_array,
                   g, addFlag, angles, addFlags>>
    /\ UNCHANGED fitVars

\* The angle of the transition from point k to point k + 1 (lines 210-211).
Gradients(k) ==
    IF entry = "filter_data_limited_gradients"
    THEN AngleSet
    ELSE {AngleOf(power_array[k + 1] - power_array[k],
                  time_array[k + 1] - time_array[k])}

\* One iteration of "for i in range(1, n)", lines 209-227.
GradientLoop ==
    /\ pc = "gradient_loop"
    /\ i < n
    /\ \E gv \in Gradients(i) :
          LET r == GradientStep(gv, runningCount)
          IN  /\ g' = gv
              /\ addFlag' = r.addFlag
              /\ runningCount' = r.runningCount
              /\ gradientsCompliance' =
                    IF r.addFlag
                    THEN [gradientsCompliance EXCEPT ![i] = @ + 1, ![i + 1] = @ + 1]
                    ELSE gradientsCompliance
              /\ angles' = Append(angles, gv)
              /\ addFlags' = Append(addFlags, r.addFlag)
    /\ i' = i + 1
    /\ UNCHANGED computeVars
    /\ UNCHANGED <<entry, index_name, pc, exc, data_in, data_site, columns, ac_cap, sunrise,
                   sunset, data_site_more_300, power_array, time_array,
                   filter_array, n>>
    /\ UNCHANGED fitVars

\* Lines 233-258: gradientsCompliance[0] of an empty list raises IndexError,
\* and so does a mask whose length differs from the series'.
GradientFinish ==
    /\ pc = "gradient_loop"
    /\ i >= n
    /\ IF n = 0
       THEN /\ Raise("IndexError", "filter_data_limited_gradients")
            /\ UNCHANGED <<power_array, time_array, filter_array>>
       ELSE LET mask == GradientMask(gradientsCompliance, n)
            IN  /\ filter_array' = mask
                /\ IF Len(mask) = n
                   THEN /\ power_array' = ApplyMask(power_array, mask)
                        /\ time_array' = ApplyMask(time_array, mask)
                        /\ pc' = IF entry = "filter_data_limited_gradients"
                                 THEN "done" ELSE "gradient_done"
                        /\ exc' = exc
                   ELSE /\ Raise("IndexError", "filter_data_limited_gradients")
                        /\ UNCHANGED <<power_array, time_array>>
    /\ UNCHANGED computeVars
    /\ UNCHANGED <<entry, index_name, data_in, data_site, columns, ac_cap, sunrise, sunset,
                   data_site_more_300>>
    /\ UNCHANGED gradVars
    /\ UNCHANGED fitVars

\* check_polyfit lines 109-113, get_polyfit lines 351-356: timestamps[0] of
\* an empty array raises IndexError; numpy fits any non-empty set of points.
CallGetPolyfit ==
    /\ pc = "gradient_done"
    /\ IF Len(time_array) = 0
       THEN /\ Raise("IndexError", "get_polyfit")
            /\ polyfit' = polyfit
       ELSE /\ polyfit' = Some(Len(time_array))
            /\ pc' = "fitted"
            /\ exc' = exc
    /\ UNCHANGED computeVars
    /\ UNCHANGED <<entry, index_name, data_in, data_site, columns, ac_cap, sunrise, sunset,
                   data_site_more_300, power_array, time_array, filter_array,
                   power_expected, is_good_polyfit_quality>>
    /\ UNCHANGED gradVars

\* Values of the quadratic over a long series, in three stretches: a
\* samples just inside the error limit above the measurement, b samples
\* exactly at the limit, and the rest below zero.
BlockCurves(rows) ==
    {[k \in 1..Len(rows) |->
         IF k <= a THEN rows[k].power + (ERROR_LIMIT - 1)
         ELSE IF k <= a + b THEN rows[k].power + ERROR_LIMIT
         ELSE -100] :
       a \in 0..Len(rows), b \in 0..Len(rows)}

\* The values the fitted quadratic may take over the rows: any for a
\* short series, the stretches above for a long one.
ExpectedCurves(rows) ==
    IF Len(rows) <= MaxLen
    THEN [1..Len(rows) -> RawExpected]
    ELSE BlockCurves(rows)

\* check_polyfit lines 115-118: the quadratic evaluated at every sample of
\* the windowed series.
EvaluatePolyfit ==
    /\ pc = "fitted"
    /\ power_expected' \in ExpectedCurves(data_site.val)
    /\ columns' = columns \cup {"power_expected"}
    /\ pc' = "evaluated"
    /\ UNCHANGED computeVars
    /\ UNCHANGED <<entry, index_name, exc, data_in, data_site, ac_cap, sunrise, sunset,
                   data_site_more_300, power_array, time_array, filter_array,
                   polyfit, is_good_polyfit_quality>>
    /\ UNCHANGED gradVars

\* Mutant: no ceiling at the rated capacity.
Clamp_NoCeiling(v, cap) == IF v < 0 THEN 0 ELSE v

Clamp(v, cap) == IF v < 0 THEN 0 ELSE IF v > cap THEN cap ELSE v

\* check_polyfit lines 119-125.
ClampExpected ==
    /\ pc = "evaluated"
    /\ power_expected' = [k \in 1..Len(power_expected) |->
                             Clamp(power_expected[k], ac_cap)]
    /\ pc' = "clamped"
    /\ UNCHANGED computeVars
    /\ UNCHANGED <<entry, index_name, exc, data_in, data_site, columns, ac_cap, sunrise, sunset,
                   data_site_more_300, power_array, time_array, filter_array,
                   polyfit, is_good_polyfit_quality>>
    /\ UNCHANGED gradVars

\* Mutant: a residual equal to the error limit counts as near.
points_near_polyfit_count_Inclusive(expected, rows) ==
    Cardinality({k \in 1..Len(rows) :
                    Abs(expected[k] - rows[k].power) <= ERROR_LIMIT})

\* Mutant: the samples counted are those far from the fit.
points_near_polyfit_count_Far(expected, rows) ==
    Cardinality({k \in 1..Len(rows) :
                    Abs(expected[k] - rows[k].power) > ERROR_LIMIT})

points_near_polyfit_count(expected, rows) ==
    Cardinality({k \in 1..Len(rows) :
                    Abs(expected[k] - rows[k].power) < ERROR_LIMIT})

\* Mutant: the gate runs on the values as evaluated, before the clamps.
QualityGate_BeforeClamp ==
    /\ pc = "evaluated"
    /\ is_good_polyfit_quality' =
           Some(Cardinality({k \in 1..Len(data_site.val) :
                    Abs(power_expected[k] - data_site.val[k].power) < ERROR_LIMIT})
                    > NEAR_POINTS_LIMIT)
    /\ pc' = "done"
    /\ UNCHANGED computeVars
    /\ UNCHANGED <<entry, index_name, exc, data_in, data_site, columns, ac_cap, sunrise, sunset,
                   data_site_more_300, power_array, time_array, filter_array,
                   polyfit, power_expected>>
    /\ UNCHANGED gradVars

\* Mutant: the gate asks for a majority of the samples, not for a count.
QualityGate_Fraction ==
    /\ pc = "clamped"
    /\ is_good_polyfit_quality' =
           Some(2 * Cardinality({k \in 1..Len(data_site.val) :
                    Abs(power_expected[k] - data_site.val[k].power) < ERROR_LIMIT})
                    > Len(data_site.val))
    /\ pc' = "done"
    /\ UNCHANGED computeVars
    /\ UNCHANGED <<entry, index_name, exc, data_in, data_site, columns, ac_cap, sunrise, sunset,
                   data_site_more_300, power_array, time_array, filter_array,
                   polyfit, power_expected>>
    /\ UNCHANGED gradVars

\* check_polyfit lines 131-139.
QualityGate ==
    /\ pc = "clamped"
    /\ is_good_polyfit_quality' =
           Some(points_near_polyfit_count(power_expected, data_site.val)
                    > NEAR_POINTS_LIMIT)
    /\ pc' = "done"
    /\ UNCHANGED computeVars
    /\ UNCHANGED <<entry, index_name, exc, data_in, data_site, columns, ac_cap, sunrise, sunset,
                   data_site_more_300, power_array, time_array, filter_array,
                   polyfit, power_expected>>
    /\ UNCHANGED gradVars

\* ---------------------------------------------------------------- compute
\* A Python float: a number or nan; the text 'n/a' the energy functions
\* return in place of one.
Num(v) == [tag |-> "num", val |-> v]
NaN == [tag |-> "nan", val |-> 0]
NA == [tag |-> "n/a", val |-> 0]

isnan(x) == x.tag = "nan"

\* x + y of two floats.
Plus(x, y) == IF isnan(x) \/ isnan(y) THEN NaN ELSE Num(x.val + y.val)

\* x > 0 of a float: false for nan.
Positive(x) == x.tag = "num" /\ x.val > 0

\* file_processing.py lines 133-143.
check_data_size(d) ==
    IF d.len > MIN_LEN
    THEN \E h \in d.hours : h >= FIRST_DAY_HOUR /\ h <= LAST_DAY_HOUR
    ELSE FALSE

\* Mutant: a frame of exactly 2000 rows is resampled too.
resample_in_minute_AtLeast(f) ==
    IF f.len >= RESAMPLE_LEN
    THEN [f EXCEPT !.len = f.minutes, !.resampled = TRUE]
    ELSE f

\* file_processing.py lines 155-166: resample('min') leaves one row per
\* one-minute bin.
resample_in_minute(f) ==
    IF f.len > RESAMPLE_LEN
    THEN [f EXCEPT !.len = f.minutes, !.resampled = TRUE]
    ELSE f

\* Mutant: the clear-sky flag is not looked at.
LinearCondition_IgnoresClearSky(clear, trip) == Positive(trip)

\* energy_calculation.py line 84.
LinearCondition(clear, trip) == ~clear /\ Positive(trip)

\* Mutant: the Linear branch adds the terms as they come, nan included.
check_energy_expected_NoNanGuard(eg, trip, vvar, vwatt, clear) ==
    IF clear
    THEN [estimation_method |-> "Polyfit",
          energy_generated_expected |-> Plus(Plus(Plus(eg, trip), vvar), vwatt)]
    ELSE IF Positive(trip)
    THEN [estimation_method |-> "Linear",
          energy_generated_expected |-> Plus(Plus(Plus(eg, trip), vvar), vwatt)]
    ELSE [estimation_method |-> "n/a", energy_generated_expected |-> NA]

\* energy_calculation.py lines 105-119.
check_energy_expected(eg, trip, vvar, vwatt, clear) ==
    IF clear
    THEN [estimation_method |-> "Polyfit",
          energy_generated_expected |-> Plus(Plus(Plus(eg, trip), vvar), vwatt)]
    ELSE IF Positive(trip)
    THEN LET vv == IF isnan(vvar) THEN Num(0) ELSE vvar
             vw == IF isnan(vwatt) THEN Num(0) ELSE vwatt
         IN  [estimation_method |-> "Linear",
              energy_generated_expected |-> Plus(Plus(Plus(eg, trip), vv), vw)]
    ELSE [estimation_method |-> "n/a", energy_generated_expected |-> NA]

\* compute lines 116-119: the file is read and indexed by its timestamps.
InitCompute ==
    /\ Idle
    /\ entry = "compute" /\ pc = "check_data_size"
    /\ data_in = <<>> /\ data_site = None
    /\ ac_cap \in AcCaps
    /\ data_site_more_300 = <<>>
    /\ power_array = <<>> /\ time_array = <<>>
    /\ n = 0 /\ gradientsCompliance = <<>>
    /\ \E sz \in FrameSizes, hs \in SUBSET HourSet :
          /\ Cardinality(hs) <= sz[1]
          /\ sz[1] > 0 => hs # {}
          /\ data = Some([len |-> sz[1], hours |-> hs])
    /\ size_is_ok = None
    /\ site_organized = None /\ site_frame = None
    /\ is_clear_sky_day = None
    /\ tripping_curt_energy = None
    /\ vvar_curt_energy = None /\ vwatt_curt_energy = None
    /\ energy_generated = None
    /\ energy_generated_expected = None /\ estimation_method = None
    /\ stages = <<>>

\* The variables of check_polyfit's own model, untouched by compute.
polyfitLocals == <<data_in, index_name, data_site, columns, ac_cap, sunrise, sunset,
                   data_site_more_300, power_array, time_array, filter_array,
                   n, i, g, runningCount, addFlag, gradientsCompliance, angles,
                   addFlags, polyfit, power_expected>>

\* compute line 121 and lines 147-148.
CheckDataSize ==
    /\ entry = "compute" /\ pc = "check_data_size"
    /\ size_is_ok' = Some(check_data_size(data.val))
    /\ stages' = Append(stages, "check_data_size")
    /\ pc' = IF check_data_size(data.val) THEN "site_organize" ELSE "done"
    /\ UNCHANGED <<entry, exc, is_good_polyfit_quality, data, site_organized,
                   site_frame, is_clear_sky_day, tripping_curt_energy,
                   vvar_curt_energy, vwatt_curt_energy, energy_generated,
                   energy_generated_expected, estimation_method>>
    /\ UNCHANGED polyfitLocals

\* compute line 128: the rows of one circuit, at most those of the file.
SiteOrganize ==
    /\ entry = "compute" /\ pc = "site_organize"
    /\ \E sz \in FrameSizes :
          /\ sz[1] <= data.val.len
          /\ site_organized' = Some([len |-> sz[1], minutes |-> sz[2]])
          /\ site_frame' = Some([len |-> sz[1], minutes |-> sz[2],
                                  resampled |-> FALSE, power_expected |-> "none"])
    /\ stages' = Append(stages, "site_organize")
    /\ pc' = "resample_in_minute"
    /\ UNCHANGED <<entry, exc, is_good_polyfit_quality, data, size_is_ok,
                   is_clear_sky_day, tripping_curt_energy,
                   vvar_curt_energy, vwatt_curt_energy, energy_generated,
                   energy_generated_expected, estimation_method>>
    /\ UNCHANGED polyfitLocals

\* compute line 129.
ResampleInMinute ==
    /\ entry = "compute" /\ pc = "resample_in_minute"
    /\ site_frame' = Some(resample_in_minute(site_frame.val))
    /\ stages' = Append(stages, "resample_in_minute")
    /\ pc' = "check_polyfit"
    /\ UNCHANGED <<entry, exc, is_good_polyfit_quality, data, size_is_ok,
                   site_organized, is_clear_sky_day, tripping_curt_energy,
                   vvar_curt_energy, vwatt_curt_energy, energy_generated,
                   energy_generated_expected, estimation_method>>
    /\ UNCHANGED polyfitLocals

\* compute line 132: the call of check_polyfit as one step.  It returns
\* the windowed series with the expected power of the fit, or raises (the
\* fit needs three points inside the daylight window).
ComputeCheckPolyfit ==
    /\ entry = "compute" /\ pc = "check_polyfit"
    /\ stages' = Append(stages, "check_polyfit")
    /\ \/ /\ site_frame.val.len >= 5
          /\ \E m \in {3, site_frame.val.len - 2}, q \in BOOLEAN :
                /\ q => m > NEAR_POINTS_LIMIT
                /\ site_frame' = Some([site_frame.val EXCEPT
                                          !.len = m, !.power_expected = "polyfit"])
                /\ is_good_polyfit_quality' = Some(q)
          /\ pc' = "check_clear_sky_day"
          /\ exc' = exc
       \/ /\ \E e \in {"TypeError", "ValueError", "IndexError"} :
                Raise(e, "check_polyfit")
          /\ UNCHANGED <<site_frame, is_good_polyfit_quality>>
    /\ UNCHANGED <<entry, data, size_is_ok,
                   site_organized, is_clear_sky_day, tripping_curt_energy,
                   vvar_curt_energy, vwatt_curt_energy, energy_generated,
                   energy_generated_expected, estimation_method>>
    /\ UNCHANGED polyfitLocals

\* compute line 134.
CheckClearSkyDay ==
    /\ entry = "compute" /\ pc = "check_clear_sky_day"
    /\ is_clear_sky_day' \in {Some(TRUE), Some(FALSE)}
    /\ stages' = Append(stages, "check_clear_sky_day")
    /\ pc' = "check_tripping_curtailment"
    /\ UNCHANGED <<entry, exc, is_good_polyfit_quality, data, size_is_ok,
                   site_organized, site_frame, tripping_curt_energy,
                   vvar_curt_energy, vwatt_curt_energy, energy_generated,
                   energy_generated_expected, estimation_method>>
    /\ UNCHANGED polyfitLocals

\* compute line 135: the tripping detector reports an energy (never nan)
\* and a method of its own, and hands the frame on with its linear
\* estimate beside the fit's.
CheckTrippingCurtailment ==
    /\ entry = "compute" /\ pc = "check_tripping_curtailment"
    /\ \E e \in TrippingEnergies : tripping_curt_energy' = Some(Num(e))
    /\ estimation_method' \in {Some("Polyfit"), Some("Linear"), Some("n/a")}
    /\ stages' = Append(stages, "check_tripping_curtailment")
    /\ pc' = "check_energy_generated"
    /\ UNCHANGED <<entry, exc, is_good_polyfit_quality, data, size_is_ok,
                   site_organized, site_frame, is_clear_sky_day,
                   vvar_curt_energy, vwatt_curt_energy, energy_generated,
                   energy_generated_expected>>
    /\ UNCHANGED polyfitLocals

\* compute line 136, energy_calculation.py lines 80-87.
CheckEnergyGenerated ==
    /\ entry = "compute" /\ pc = "check_energy_generated"
    /\ \E e \in GeneratedEnergies : energy_generated' = Some(Num(e))
    /\ site_frame' =
          IF LinearCondition(is_clear_sky_day.val, tripping_curt_energy.val)
          THEN Some([site_frame.val EXCEPT !.power_expected = "linear"])
          ELSE site_frame
    /\ stages' = Append(stages, "check_energy_generated")
    /\ pc' = "check_vvar_curtailment"
    /\ UNCHANGED <<entry, exc, is_good_polyfit_quality, data, size_is_ok,
                   site_organized, is_clear_sky_day, tripping_curt_energy,
                   vvar_curt_energy, vwatt_curt_energy,
                   energy_generated_expected, estimation_method>>
    /\ UNCHANGED polyfitLocals

\* compute line 137: an energy, or nan.
CheckVVarCurtailment ==
    /\ entry = "compute" /\ pc = "check_vvar_curtailment"
    /\ \/ \E e \in VVarEnergies : vvar_curt_energy' = Some(Num(e))
       \/ vvar_curt_energy' = Some(NaN)
    /\ stages' = Append(stages, "check_vvar_curtailment")
    /\ pc' = "check_vwatt_curtailment"
    /\ UNCHANGED <<entry, exc, is_good_polyfit_quality, data, size_is_ok,
                   site_organized, site_frame, is_clear_sky_day,
                   tripping_curt_energy, vwatt_curt_energy, energy_generated,
                   energy_generated_expected, estimation_method>>
    /\ UNCHANGED polyfitLocals

\* compute line 138: an energy, or nan.
CheckVWattCurtailment ==
    /\ entry = "compute" /\ pc = "check_vwatt_curtailment"
    /\ \/ \E e \in VWattEnergies : vwatt_curt_energy' = Some(Num(e))
       \/ vwatt_curt_energy' = Some(NaN)
    /\ stages' = Append(stages, "check_vwatt_curtailment")
    /\ pc' = "check_energy_expected"
    /\ UNCHANGED <<entry, exc, is_good_polyfit_quality, data, size_is_ok,
                   site_organized, site_frame, is_clear_sky_day,
                   tripping_curt_energy, vvar_curt_energy, energy_generated,
                   energy_generated_expected, estimation_method>>
    /\ UNCHANGED polyfitLocals

\* compute line 140, energy_calculation.py lines 105-119.
CheckEnergyExpected ==
    /\ entry = "compute" /\ pc = "check_energy_expected"
    /\ LET r == check_energy_expected(energy_generated.val,
                    tripping_curt_energy.val, vvar_curt_energy.val,
                    vwatt_curt_energy.val, is_clear_sky_day.val)
       IN  /\ energy_generated_expected' = Some(r.energy_generated_expected)
           /\ estimation_method' = Some(r.estimation_method)
    /\ stages' = Append(stages, "check_energy_expected")
    /\ pc' = "summarize"
    /\ UNCHANGED <<entry, exc, is_good_polyfit_quality, data, size_is_ok,
                   site_organized, site_frame, is_clear_sky_day,
                   tripping_curt_energy, vvar_curt_energy, vwatt_curt_energy,
                   energy_generated>>
    /\ UNCHANGED polyfitLocals

\* compute lines 142-148: the summary and the plots.
Summarize ==
    /\ entry = "compute" /\ pc = "summarize"
    /\ stages' = Append(stages, "summarize")
    /\ pc' = "done"
    /\ UNCHANGED <<entry, exc, is_good_polyfit_quality, data, size_is_ok,
                   site_organized, site_frame, is_clear_sky_day,
                   tripping_curt_energy, vvar_curt_energy, vwatt_curt_energy,
                   energy_generated, energy_generated_expected,
                   estimation_method>>
    /\ UNCHANGED polyfitLocals

\* ----------------------------------------------------- specifications
Next ==
    \/ CallFilterSunriseSunset
    \/ AttachRelativePower
    \/ CallFilterPowerDataIndex
    \/ GradientBegin
    \/ GradientLoop
    \/ GradientFinish
    \/ CallGetPolyfit
    \/ EvaluatePolyfit
    \/ ClampExpected
    \/ QualityGate

Spec == Init /\ [][Next]_vars

\* check_polyfit on days long enough for the quality gate to pass.
SpecQuality == InitQuality /\ [][Next]_vars

NextCompute ==
    \/ CheckDataSize
    \/ SiteOrganize
    \/ ResampleInMinute
    \/ ComputeCheckPolyfit
    \/ CheckClearSkyDay
    \/ CheckTrippingCurtailment
    \/ CheckEnergyGenerated
    \/ CheckVVarCurtailment
    \/ CheckVWattCurtailment
    \/ CheckEnergyExpected
    \/ Summarize

\* One run of compute(file_path, data_file, ghi_file).
SpecCompute == InitCompute /\ [][NextCompute]_vars

NextEnvelope == CallFilterPowerDataIndex

SpecEnvelope == InitEnvelope /\ [][NextEnvelope]_vars

NextGradient ==
    \/ GradientBegin
    \/ GradientLoop
    \/ GradientFinish

SpecGradient == InitGradient /\ [][NextGradient]_vars

NextSeconds ==
    \/ FormatTimeArray
    \/ GradientBegin
    \/ GradientLoop
    \/ GradientFinish

SpecSeconds == InitSeconds /\ [][NextSeconds]_vars

\* ============================================================ claims
InCheckPolyfit == entry = "check_polyfit"

\* No sample of the caller's series is above the daylight threshold.
DarkDay == \A k \in 1..Len(data_in) : data_in[k].power <= LIMIT_DAY_POWER

Returned == pc = "done"

AfterGradient == pc \in {"gradient_done", "fitted", "evaluated", "clamped", "done"}

\* C1: for every day series with no sample above 10 W (the empty series
\* included) check_polyfit returns normally, with quality flag false, and
\* never raises.  The code raises TypeError at line 100: it subscripts the
\* None that filter_sunrise_sunset returned.
C1_DarkDayReturnsNormally ==
    (InCheckPolyfit /\ DarkDay) =>
        /\ exc = NoException
        /\ (Returned => is_good_polyfit_quality = Some(FALSE))

\* C2: whenever fewer than 3 points survive the envelope and gradient
\* filters, check_polyfit does not invoke get_polyfit: the curve fitter is
\* entered only with at least 3 surviving points.  The code calls
\* get_polyfit unconditionally (line 111).
FitterInvoked == polyfit # None \/ exc.where = "get_polyfit"

C2_FitterNeedsThreePoints ==
    (InCheckPolyfit /\ FitterInvoked) => Len(power_array) >= 3

DayIndices == {k \in 1..Len(data_in) : data_in[k].power > LIMIT_DAY_POWER}

C4_OpenDaylightWindow ==
    (InCheckPolyfit /\ pc = "windowed" /\ ~DarkDay) =>
        LET a == CHOOSE k \in DayIndices : \A j \in DayIndices : k <= j
            b == CHOOSE k \in DayIndices : \A j \in DayIndices : k >= j
        IN  /\ sunrise = Some(data_in[a].ts)
            /\ sunset = Some(data_in[b].ts)
            /\ data_site = Some(SubSeq(data_in, a + 1, b - 1))

C4_Witness ==
    /\ InCheckPolyfit /\ pc = "windowed" /\ ~DarkDay
    /\ Len(data_site.val) >= 2
    /\ Len(data_in) > Len(data_site.val) + 2
    /\ \E k \in 1..Len(data_site.val) : data_site.val[k].power <= LIMIT_DAY_POWER

\* C5: a perfectly flat day (every sample at the same power above 300 W)
\* yields an empty gradient-filtered set, and check_polyfit then finishes
\* with quality false instead of raising.  The gradient-filtered set is
\* empty, but get_polyfit is called with it and raises IndexError
\* (line 352).
FlatDay ==
    /\ Len(data_in) >= 4
    /\ \A k \in 1..Len(data_in) :
          data_in[k].power = data_in[1].power /\ data_in[k].power > POWER_FLOOR

C5_FlatDayDegenerateFit ==
    (InCheckPolyfit /\ FlatDay) =>
        /\ exc = NoException
        /\ (AfterGradient => power_array = <<>>)
        /\ (Returned => is_good_polyfit_quality = Some(FALSE))

\* C6: when the above-300 W subset given to filter_power_data_index is
\* empty or a single point, the filter returns an empty envelope without
\* raising, and the gradient filter passes it on without raising.  The
\* code raises ValueError on the empty subset (max of nothing, line 276),
\* returns the single point as the envelope, and raises IndexError in the
\* gradient filter on an envelope of 0 or 1 points.
SubsetTaken ==
    \/ pc \in {"subset", "envelope", "gradient_loop"}
    \/ AfterGradient
    \/ pc = "raised" /\ exc.where # "check_polyfit"

C6_SmallSubsetEmptyEnvelope ==
    (InCheckPolyfit /\ SubsetTaken /\ Len(data_site_more_300) <= 1) =>
        /\ exc = NoException
        /\ (pc \in {"envelope", "gradient_loop"} => power_array = <<>>)

\* ------------------------------------------- envelope filter (C7 - C9)
InEnvelopeCall == entry = "filter_power_data_index" /\ pc # "subset"

\* The samples of the subset passed in that hold its maximum power.
PeakSet == {k \in 1..Len(data_in) :
               \A j \in 1..Len(data_in) : data_in[j].power <= data_in[k].power}

UniquePeak == Cardinality(PeakSet) = 1

PeakIndex == CHOOSE k \in PeakSet : \A j \in PeakSet : k <= j

\* C7: for every subset with a unique maximum, the envelope filter returns,
\* and the power values it returns, read in time order, are non-decreasing
\* up to the peak and non-increasing after it.
C7_EnvelopeRisesThenFalls ==
    (InEnvelopeCall /\ UniquePeak) =>
        /\ pc = "done"
        /\ \E q \in 1..Len(power_array) :
              /\ power_array[q] = data_in[PeakIndex].power
              /\ \A j, k \in 1..q : j < k => power_array[j] <= power_array[k]
              /\ \A j, k \in q..Len(power_array) :
                    j < k => power_array[j] >= power_array[k]

\* A returned envelope with the peak inside it and a sample dropped.
C7_Witness ==
    /\ InEnvelopeCall /\ UniquePeak /\ pc = "done"
    /\ Len(power_array) >= 3
    /\ Len(power_array) < Len(data_in)
    /\ power_array[1] # data_in[PeakIndex].power
    /\ power_array[Len(power_array)] # data_in[PeakIndex].power

\* C8: when two or more samples share the maximum power, the filter raises
\* the first tied sample by 1 W and no other, so that exactly one sample
\* holds the maximum; both walks stop at that sample (the mask has one flag
\* per sample and keeps it), and the output holds the peak exactly once.
C8_TieBrokenAtFirstPeak ==
    (InEnvelopeCall /\ Cardinality(PeakSet) > 1) =>
        LET f == PeakIndex
            top == data_in[f].power + 1
        IN  /\ pc = "done"
            /\ data_site_more_300 = [data_in EXCEPT ![f].power = top]
            /\ {k \in 1..Len(data_site_more_300) :
                    data_site_more_300[k].power >= top} = {f}
            /\ Len(filter_array) = Len(data_in)
            /\ filter_array[f]
            /\ Cardinality({k \in 1..Len(power_array) : power_array[k] = top}) = 1
            /\ Cardinality({k \in 1..Len(time_array) :
                               time_array[k] = data_in[f].ts}) = 1

\* A tie of three, of which a later tied sample stays in the output.
C8_Witness ==
    /\ InEnvelopeCall /\ pc = "done"
    /\ Cardinality(PeakSet) >= 3
    /\ PeakIndex > 1
    /\ \E k \in 1..Len(power_array) : power_array[k] = data_in[PeakIndex].power

\* C9: for every subset with a unique maximum at index p the kept mask has
\* one flag per sample and keeps exactly: each sample before p that
\* strictly exceeds all earlier samples, the peak, and each sample after p
\* that strictly exceeds all later samples; the output is those samples in
\* time order.
KeptByEnvelope(k) ==
    IF k < PeakIndex
    THEN \A j \in 1..(k - 1) : data_in[j].power < data_in[k].power
    ELSE IF k = PeakIndex THEN TRUE
    ELSE \A j \in (k + 1)..Len(data_in) : data_in[j].power < data_in[k].power

C9_EnvelopeIsStrictRunningMaxima ==
    (InEnvelopeCall /\ UniquePeak) =>
        LET kept == SortedSeq({k \in 1..Len(data_in) : KeptByEnvelope(k)})
        IN  /\ pc = "done"
            /\ Len(filter_array) = Len(data_in)
            /\ \A k \in 1..Len(data_in) : filter_array[k] = KeptByEnvelope(k)
            /\ power_array = [j \in 1..Len(kept) |-> data_in[kept[j]].power]
            /\ time_array = [j \in 1..Len(kept) |-> data_in[kept[j]].ts]

\* A plateau before the peak and a dip after it, both dropped.
C9_Witness ==
    /\ InEnvelopeCall /\ UniquePeak /\ pc = "done"
    /\ \E k \in 2..(PeakIndex - 1) :
          data_in[k].power = data_in[k - 1].power /\ ~filter_array[k]
    /\ \E k \in (PeakIndex + 1)..(Len(data_in) - 1) :
          data_in[k].power < data_in[k + 1].power /\ ~filter_array[k]

\* ------------------------------------------------ gradient filter (C10)
InGradientCall == entry = "filter_data_limited_gradients"

\* The band the first branch of the loop tests.
InStrictBand(a) == a > ANGLE_LOWER_LIMIT /\ a < ANGLE_UPPER_LIMIT

\* The last rejected transition before transition k (0 if none).
LastRejection(k) ==
    LET R == {j \in 1..(k - 1) : ~addFlags[j]}
    IN  IF R = {} THEN 0 ELSE CHOOSE j \in R : \A m \in R : m <= j

\* Strict-band acceptances between the last rejection and transition k.
StrictSinceRejection(k) ==
    Cardinality({j \in (LastRejection(k) + 1)..(k - 1) :
                    addFlags[j] /\ InStrictBand(angles[j])})

C11_BandsClosedBelow ==
    InGradientCall =>
        \A k \in 1..Len(angles) :
           /\ angles[k] = ANGLE_LOWER_LIMIT => addFlags[k]
           /\ (angles[k] = WIDER_ANGLE_LOWER_LIMIT
                 /\ StrictSinceRejection(k) > CONTINUANCE_LIMIT) => addFlags[k]

\* C11 amended: the bands are open at their lower ends.  A transition at
\* exactly 80 degrees is not in the strict band: it is accepted only
\* through the relaxed band, when the counter already exceeds 2, and it
\* never increments the counter (a rejection resets it).  A transition at
\* exactly 70 degrees is rejected whatever the counter.
C11_BandsOpenBelow ==
    InGradientCall =>
        /\ \A k \in 1..Len(angles) :
              /\ angles[k] = ANGLE_LOWER_LIMIT =>
                    (addFlags[k] <=> StrictSinceRejection(k) > CONTINUANCE_LIMIT)
              /\ angles[k] = WIDER_ANGLE_LOWER_LIMIT => ~addFlags[k]
        /\ (Len(angles) > 0 /\ angles[Len(angles)] = ANGLE_LOWER_LIMIT) =>
              runningCount = IF addFlags[Len(angles)]
                             THEN StrictSinceRejection(Len(angles))
                             ELSE 0

\* An 80-degree transition rejected with a low counter, another accepted
\* with the counter above 2, and a 70-degree transition rejected with the
\* counter above 2.
C11_Witness ==
    /\ InGradientCall
    /\ \E a, b, c \in 1..Len(angles) :
          /\ angles[a] = ANGLE_LOWER_LIMIT /\ ~addFlags[a]
          /\ angles[b] = ANGLE_LOWER_LIMIT /\ addFlags[b]
          /\ angles[c] = WIDER_ANGLE_LOWER_LIMIT
          /\ StrictSinceRejection(c) > CONTINUANCE_LIMIT
          /\ ~addFlags[c]

\* ------------------------------------------------ keep-mask (C12, C13)
\* The gradient filter has returned to its caller.
GradientReturned == InGradientCall /\ pc = "done"

\* Transition j (from point j to point j + 1) exists and was accepted.
Accepted(j) == j \in 1..Len(addFlags) /\ addFlags[j]

\* The number of accepted transitions point k is an endpoint of.
ComplianceCount(k) ==
    (IF Accepted(k - 1) THEN 1 ELSE 0) + (IF Accepted(k) THEN 1 ELSE 0)

\* C12 as stated: every interior point that is an endpoint of at least
\* one accepted transition (compliance count >= 1) survives the filter.
C12_InteriorSurvivesOnAnyCompliance ==
    GradientReturned =>
        \A k \in 2..(n - 1) : ComplianceCount(k) >= 1 => filter_array[k]

\* C12 amended: the recorded compliance count of a point is the number of
\* accepted transitions it is an endpoint of, and an interior point
\* survives exactly when that count is 2, or it is 1 and one of the two
\* adjacent points has count 2.
C12_InteriorSurvival ==
    GradientReturned =>
        /\ \A k \in 1..n : gradientsCompliance[k] = ComplianceCount(k)
        /\ \A k \in 2..(n - 1) :
              filter_array[k] <=>
                 \/ ComplianceCount(k) = 2
                 \/ /\ ComplianceCount(k) = 1
                    /\ \/ ComplianceCount(k - 1) = 2
                       \/ ComplianceCount(k + 1) = 2

\* An interior point with count 1 dropped, another with count 1 kept
\* beside a point with count 2.
C12_Witness ==
    /\ GradientReturned
    /\ \E j, k \in 2..(n - 1) :
          /\ ComplianceCount(j) = 1 /\ ~filter_array[j]
          /\ ComplianceCount(k) = 1 /\ filter_array[k]

\* C13: whenever the filter returns (n >= 2), the first point survives if
\* and only if its single transition was accepted and the second point
\* has compliance count 2, and the last point survives if and only if its
\* single transition was accepted and the second-to-last point has
\* compliance count 2.
C13_BoundarySurvival ==
    GradientReturned =>
        /\ n >= 2
        /\ Len(filter_array) = n
        /\ filter_array[1] <=> (Accepted(1) /\ ComplianceCount(2) = 2)
        /\ filter_array[n] <=> (Accepted(n - 1) /\ ComplianceCount(n - 1) = 2)

\* The first point kept; the last dropped although its transition was
\* accepted.
C13_Witness ==
    /\ GradientReturned
    /\ filter_array[1]
    /\ Accepted(n - 1) /\ ~filter_array[n]

\* ------------------------------------------------ constant ramp (C14)
\* Every transition of the call had a slope angle of 85 degrees.
Ramp85 == \A k \in 1..Len(angles) : angles[k] = 85

\* The loop over the transitions is over.
LoopOver == pc \notin {"envelope", "gradient_loop"}

\* The points the filter was called with.
GradientInput == [k \in 1..n |-> k]

\* C14 as stated: for a ramp of any length n >= 2 whose transitions all
\* have angle 85 degrees the filter returns its input unchanged.
C14_RampRetained ==
    (InGradientCall /\ LoopOver /\ n >= 2 /\ Ramp85) =>
        /\ pc = "done"
        /\ power_array = GradientInput /\ time_array = GradientInput

\* C14 amended: the same for n >= 3; a ramp of two points comes back empty.
C14_RampRetainedFromThree ==
    (InGradientCall /\ LoopOver /\ Ramp85) =>
        /\ n >= 3 =>
              /\ pc = "done"
              /\ power_array = GradientInput /\ time_array = GradientInput
        /\ n = 2 =>
              /\ pc = "done"
              /\ power_array = <<>> /\ time_array = <<>>

\* The longest ramp, returned whole.
C14_Witness ==
    /\ GradientReturned /\ Ramp85
    /\ n = MaxPoints
    /\ Len(power_array) = MaxPoints

\* ------------------------------------------------ sub-sequence (C15)
\* The positions the keep-mask selects, in increasing order.
KeptPositions == SortedSeq({k \in 1..n : filter_array[k]})

\* C15: the output of the gradient filter is the sub-sequence of its
\* input that the keep-mask selects, in the original order, and the power
\* and the time outputs hold the same positions, so that every output
\* pair is a pair of the input.
C15_OutputIsSubsequence ==
    GradientReturned =>
        /\ Len(filter_array) = n
        /\ power_array = KeptPositions
        /\ time_array = KeptPositions
        /\ \A j \in 1..(Len(power_array) - 1) : power_array[j] < power_array[j + 1]

\* A point dropped in the middle, with points kept on both sides of it.
C15_Witness ==
    /\ GradientReturned
    /\ Len(power_array) >= 3
    /\ \E k \in 2..(n - 1) :
          /\ ~filter_array[k]
          /\ \E a, b \in 1..n : a < k /\ k < b /\ filter_array[a] /\ filter_array[b]

\* ------------------------------------------------ quality gate (C16-C18)
\* The samples of the returned series whose expected power is within the
\* error limit of the measured power, on either side.
NearSamples ==
    {k \in 1..Len(data_site.val) :
        /\ power_expected[k] - data_site.val[k].power < ERROR_LIMIT
        /\ data_site.val[k].power - power_expected[k] < ERROR_LIMIT}

\* C16: the quality flag check_polyfit returns is true if and only if
\* more than 50 samples of the daylight-windowed series have an absolute
\* residual |expected power after clamping - measured power| strictly
\* below 50 W, that is, at least 51 of them; exactly 50 give false.
C16_QualityFlagThreshold ==
    (InCheckPolyfit /\ Returned) =>
        /\ \A k \in 1..Len(power_expected) :
              power_expected[k] >= 0 /\ power_expected[k] <= ac_cap
        /\ is_good_polyfit_quality =
              Some(Cardinality(NearSamples) >= NEAR_POINTS_LIMIT + 1)

\* Exactly 50 near samples and one more at a residual of exactly 50 W:
\* flag false.
C16_Witness ==
    /\ InCheckPolyfit /\ Returned
    /\ Cardinality(NearSamples) = NEAR_POINTS_LIMIT
    /\ \E k \in 1..Len(data_site.val) :
          power_expected[k] - data_site.val[k].power = ERROR_LIMIT
    /\ is_good_polyfit_quality = Some(FALSE)

\* Amounts by which a measurement is moved away from the expected power.
NoiseSet == {1, 200}

\* The rows with every measured power moved away from the expected
\* power, sample k by D[(k % 3) + 1] watts: every absolute residual
\* grows strictly.
Noisier(rows, expected, D) ==
    [k \in 1..Len(rows) |->
        [ts |-> rows[k].ts,
         power |-> IF expected[k] >= rows[k].power
                   THEN rows[k].power - D[(k % 3) + 1]
                   ELSE rows[k].power + D[(k % 3) + 1]]]

\* C17: for the expected-power series of a returned day, the gate run on
\* measured powers whose absolute residual is strictly larger at every
\* sample never gives true where the day's flag was false.
C17_NoiseNeverImprovesQuality ==
    (InCheckPolyfit /\ Returned) =>
        \A D \in [1..3 -> NoiseSet] :
           LET noisy == Noisier(data_site.val, power_expected, D)
           IN  /\ \A k \in 1..Len(noisy) :
                     Abs(power_expected[k] - noisy[k].power)
                        > Abs(power_expected[k] - data_site.val[k].power)
               /\ is_good_polyfit_quality = Some(FALSE) =>
                     ~(points_near_polyfit_count(power_expected, noisy)
                          > NEAR_POINTS_LIMIT)

\* A day whose flag is false with 50 near samples, and noise that takes
\* some of them but not all beyond the error limit.
C17_Witness ==
    /\ InCheckPolyfit /\ Returned
    /\ is_good_polyfit_quality = Some(FALSE)
    /\ Cardinality(NearSamples) = NEAR_POINTS_LIMIT
    /\ \E D \in [1..3 -> NoiseSet] :
          LET c == points_near_polyfit_count(power_expected,
                       Noisier(data_site.val, power_expected, D))
          IN  c > 0 /\ c < NEAR_POINTS_LIMIT

\* The rows of the caller's series strictly between its first and its
\* last sample above the daylight threshold.
WindowedIndices ==
    LET D == DayIndices
    IN  IF D = {} THEN {}
        ELSE LET a == CHOOSE k \in D : \A j \in D : k <= j
                 b == CHOOSE k \in D : \A j \in D : k >= j
             IN  {k \in 1..Len(data_in) : a < k /\ k < b}

C19_ExpectedWithinCapacity ==
    (InCheckPolyfit /\ Returned /\ ac_cap > 0) =>
        /\ "power_expected" \in columns
        /\ \A k \in 1..Len(power_expected) :
              0 <= power_expected[k] /\ power_expected[k] <= ac_cap

\* A returned series with a value raised to 0, a value cut to the
\* capacity, and a value left between them.
C19_Witness ==
    /\ InCheckPolyfit /\ Returned /\ ac_cap > 0
    /\ \E a, b, c \in 1..Len(power_expected) :
          /\ power_expected[a] = 0
          /\ power_expected[b] = ac_cap
          /\ 0 < power_expected[c] /\ power_expected[c] < ac_cap

\* C20 as stated: the returned series has one expected-power value per
\* sample, on the index of the input day series (the same timestamps in
\* the same order).
C20_SameIndexAsInput ==
    (InCheckPolyfit /\ Returned) =>
        /\ Len(power_expected) = Len(data_site.val)
        /\ Times(data_site.val) = Times(data_in)

\* The rows of the input strictly between sunrise and sunset, in order.
WindowedRows ==
    LET W == WindowedIndices
    IN  IF W = {} THEN <<>>
        ELSE LET first == CHOOSE k \in W : \A j \in W : k <= j
             IN  [j \in 1..Cardinality(W) |-> data_in[first + j - 1]]

\* C20 amended: the returned series has one expected-power value per
\* sample, on the index of the daylight-windowed series: the rows of the
\* input strictly between its first and its last sample above 10 W, in
\* the input's order, the two boundary samples and every sample outside
\* them being absent.
C20_IndexIsDaylightWindow ==
    (InCheckPolyfit /\ Returned) =>
        /\ "power_expected" \in columns
        /\ Len(power_expected) = Len(data_site.val)
        /\ data_site.val = WindowedRows
        /\ Len(data_site.val) <= Len(data_in) - 2

\* A returned series, shorter than the series passed in.
C20_Witness ==
    /\ InCheckPolyfit /\ Returned
    /\ Len(power_expected) = Len(data_site.val)
    /\ Len(data_site.val) >= 3
    /\ Len(data_in) = Len(data_site.val) + 2

\* ------------------------------------------------ frame of the call (C21)
\* C21: check_polyfit changes the day series only by appending the
\* expected-power field: the returned series has no other added field,
\* its measured powers are those of the input's samples in the input's
\* order (the 1 W tie-break does not reach them), and the metadata of the
\* caller's frame (the name of its index) is what it was at the call.
C21_OnlyExpectedPowerAppended ==
    (InCheckPolyfit /\ Returned) =>
        /\ columns = {"power", "power_expected"}
        /\ data_site.val = WindowedRows
        /\ index_name = "Timestamp"

\* ------------------------------------------------ points of the fit (C22)
\* The samples of the windowed series above the 300 W floor.
HighIndices == {k \in WindowedIndices : data_in[k].power > POWER_FLOOR}

\* The first of the samples that share the maximum of the subset, if the
\* maximum is tied (0 otherwise).
TiedPeak ==
    LET H == HighIndices
        P == {k \in H : \A j \in H : data_in[j].power <= data_in[k].power}
    IN  IF Cardinality(P) > 1
        THEN CHOOSE k \in P : \A j \in P : k <= j
        ELSE 0

\* The points get_polyfit is called with.
FitPoints == {<<time_array[j], power_array[j]>> : j \in 1..Len(power_array)}

\* C22 as stated: the points handed to the curve fitter are (timestamp,
\* power) pairs of the day series, each with measured power above 300 W.
C22_FitPointsAreDaySamples ==
    (InCheckPolyfit /\ AfterGradient) =>
        \A pt \in FitPoints :
           \E k \in 1..Len(data_in) :
              /\ data_in[k].ts = pt[1]
              /\ data_in[k].power = pt[2]
              /\ data_in[k].power > POWER_FLOOR

\* C22 amended: every point handed to the curve fitter has the timestamp
\* of a sample of the windowed day series whose measured power is above
\* 300 W, and that sample's measured power, except for the first sample
\* of a tied maximum, whose power is handed over raised by 1 W.
C22_FitPointsUpToTieBreak ==
    (InCheckPolyfit /\ AfterGradient) =>
        LET H == HighIndices
            peak == TiedPeak
        IN  \A pt \in FitPoints :
               \E k \in H :
                  /\ data_in[k].ts = pt[1]
                  /\ pt[2] = IF k = peak THEN data_in[k].power + 1
                             ELSE data_in[k].power

\* A fit on three points, one of them the raised first sample of a tie.
C22_Witness ==
    /\ InCheckPolyfit /\ pc = "fitted"
    /\ Len(power_array) >= 3
    /\ TiedPeak # 0
    /\ <<data_in[TiedPeak].ts, data_in[TiedPeak].power + 1>> \in FitPoints

\* ------------------------------------------------ order of the stages (C23)
\* The position of a stage in check_polyfit.
StageRank(p) ==
    CASE p = "check_polyfit" -> 0
      [] p = "windowed" -> 1
      [] p = "subset" -> 2
      [] p = "envelope" -> 3
      [] p = "gradient_loop" -> 4
      [] p = "gradient_done" -> 5
      [] p = "fitted" -> 6
      [] p = "evaluated" -> 7
      [] p = "clamped" -> 8
      [] p = "done" -> 9
      [] OTHER -> 10

\* What each stage has left behind when the call stands after it.
StageEffects ==
    /\ StageRank(pc) \in 1..9 => (~IsNone(data_site) => data_site.val = WindowedRows)
    /\ StageRank(pc) \in 2..9 =>
          /\ "power_relative" \in columns
          /\ LET H == HighIndices
             IN  \A k \in 1..Len(data_site_more_300) :
                    \E j \in H : data_in[j].ts = data_site_more_300[k].ts
    /\ StageRank(pc) = 3 =>
          Len(power_array) = Cardinality({k \in 1..Len(filter_array) : filter_array[k]})
    /\ StageRank(pc) \in 6..9 => polyfit = Some(Len(power_array))
    /\ StageRank(pc) \in 7..9 =>
          /\ "power_expected" \in columns
          /\ Len(power_expected) = Len(data_site.val)
    /\ StageRank(pc) \in 0..6 => "power_expected" \notin columns
    /\ StageRank(pc) \in 8..9 =>
          \A k \in 1..Len(power_expected) :
             power_expected[k] >= 0 /\ power_expected[k] <= ac_cap
    /\ StageRank(pc) \in 0..8 => is_good_polyfit_quality = None
    /\ StageRank(pc) = 9 =>
          is_good_polyfit_quality =
             Some(Cardinality(NearSamples) > NEAR_POINTS_LIMIT)

\* C23: within one call of check_polyfit the stages run in the fixed
\* order window, relative power and 300 W subset, envelope filter,
\* gradient filter, fit, evaluation over the windowed series, clamps,
\* quality gate: every step moves to the next stage (or raises), and the
\* quality count is taken on the clamped values over the windowed series,
\* not over the points of the fit.
C23_StagesInOrder ==
    /\ [](InCheckPolyfit => StageEffects)
    /\ [][InCheckPolyfit =>
            \/ pc' = pc
            \/ pc' = "raised"
            \/ StageRank(pc') = StageRank(pc) + 1]_vars

\* A day that passes the gate on a fit of three points, counting samples
\* that are near the fit only once it is clamped to 0.
C23_Witness ==
    /\ InCheckPolyfit /\ Returned
    /\ is_good_polyfit_quality = Some(TRUE)
    /\ Len(power_array) = 3
    /\ \E k \in NearSamples : power_expected[k] = 0

\* ------------------------------------------------ expected energy (C24)
InCompute == entry = "compute"

\* check_energy_expected has returned.
EnergyExpectedReturned == InCompute /\ energy_generated_expected # None

\* The value of a term of the sum, nan counted as 0.
NanAsZero(x) == IF x.tag = "nan" THEN 0 ELSE x.val

\* C24: check_energy_expected is three-way.  On a clear-sky day the method
\* is 'Polyfit' and the value the float sum generated + tripping + VVAr +
\* VWatt (nan when a term is nan); on another day with tripping energy
\* above 0 the method is 'Linear' and the value the same sum with a nan
\* VVAr or VWatt term counted as 0; in every other case both the method
\* and the value are 'n/a', never a number.
C24_ThreeWayExpectedEnergy ==
    EnergyExpectedReturned =>
        LET eg == energy_generated.val
            trip == tripping_curt_energy.val
            vvar == vvar_curt_energy.val
            vwatt == vwatt_curt_energy.val
            value == energy_generated_expected.val
        IN  IF is_clear_sky_day.val
            THEN /\ estimation_method = Some("Polyfit")
                 /\ IF vvar.tag = "nan" \/ vwatt.tag = "nan"
                    THEN value.tag = "nan"
                    ELSE value = Num(eg.val + trip.val + vvar.val + vwatt.val)
            ELSE IF trip.val > 0
            THEN /\ estimation_method = Some("Linear")
                 /\ value = Num(eg.val + trip.val + NanAsZero(vvar) + NanAsZero(vwatt))
            ELSE /\ estimation_method = Some("n/a")
                 /\ value.tag = "n/a"

\* A Linear estimate with a nan VVAr term counted as 0 beside a VWatt
\* term above 0.
C24_Witness ==
    /\ EnergyExpectedReturned
    /\ estimation_method = Some("Linear")
    /\ vvar_curt_energy = Some(NaN)
    /\ vwatt_curt_energy.val.tag = "num" /\ vwatt_curt_energy.val.val > 0
    /\ energy_generated_expected.val.tag = "num"
    /\ energy_generated_expected.val.val =
          energy_generated.val.val + tripping_curt_energy.val.val
             + vwatt_curt_energy.val.val

\* ------------------------------------------------ gating in compute (C26)
\* The stages after resample_in_minute.
AnalysisStages ==
    {"check_polyfit", "check_clear_sky_day", "check_tripping_curtailment",
     "check_energy_generated", "check_vvar_curtailment",
     "check_vwatt_curtailment", "check_energy_expected", "summarize"}

StageRun(name) == \E j \in 1..Len(stages) : stages[j] = name

EnergyGeneratedReturned == InCompute /\ energy_generated # None

\* C30: check_energy_generated overwrites the expected-power column with
\* the linear estimate exactly when check_energy_expected, given the same
\* clear-sky flag and tripping energy, reports the method 'Linear',
\* whatever the other energies; otherwise the column is the fit's.
C30_LinearOverwriteMatchesMethod ==
    EnergyGeneratedReturned =>
        /\ \A eg \in GeneratedEnergies :
           \A vvar \in {Num(e) : e \in VVarEnergies} \cup {NaN} :
           \A vwatt \in {Num(e) : e \in VWattEnergies} \cup {NaN} :
              (site_frame.val.power_expected = "linear") <=>
                 (check_energy_expected(Num(eg), tripping_curt_energy.val, vvar,
                      vwatt, is_clear_sky_day.val).estimation_method = "Linear")
        /\ site_frame.val.power_expected \in {"linear", "polyfit"}
        /\ EnergyExpectedReturned =>
              ((site_frame.val.power_expected = "linear")
                  <=> estimation_method = Some("Linear"))

\* A run in which the column was overwritten and the method reported is
\* 'Linear'.
C30_Witness ==
    /\ EnergyExpectedReturned
    /\ site_frame.val.power_expected = "linear"
    /\ estimation_method = Some("Linear")

\* ------------------------------------------------ state machine (C25)
\* The three states as classes of the counter: no run, a run that has
\* not yet opened the relaxed band, a run that has.
ThreeStateOf(c) ==
    IF c = 0 THEN "idle" ELSE IF c <= 2 THEN "strict-run" ELSE "relaxed-run"

FourStateStep(st, a) ==
    IF a > 80 /\ a < 90
    THEN [keep |-> TRUE,
          next |-> CASE st = "idle" -> "strict-run-1"
                     [] st = "strict-run-1" -> "strict-run-2"
                     [] OTHER -> "relaxed-run"]
    ELSE IF st = "relaxed-run" /\ a > 70
    THEN [keep |-> TRUE, next |-> "relaxed-run"]
    ELSE [keep |-> FALSE, next |-> "idle"]

\* The state of the four-state machine before transition k of the run.
RECURSIVE FourStateBefore(_)
FourStateBefore(k) ==
    IF k = 1 THEN "idle"
    ELSE FourStateStep(FourStateBefore(k - 1), angles[k - 1]).next

\* The decisions of the loop started with the counter at c on the angles w.
RECURSIVE Decisions(_, _)
Decisions(c, w) ==
    IF Len(w) = 0 THEN <<>>
    ELSE LET r == GradientStep(Head(w), c)
         IN  <<r.addFlag>> \o Decisions(r.runningCount, Tail(w))

DoublyCompliant(c) == c \in 2..(n - 1) /\ ComplianceCount(c) = 2

\* C27: whenever the gradient filter returns, the number of surviving
\* points is 0 or at least 3, never 1 or 2: a point survives only if it
\* or an adjacent point has both of its transitions accepted, and both
\* neighbours of every such doubly-compliant point survive with it.
C27_NoneOrAtLeastThreeSurvive ==
    GradientReturned =>
        /\ Len(power_array) = 0 \/ Len(power_array) >= 3
        /\ Len(power_array) = Cardinality({k \in 1..n : filter_array[k]})
        /\ \A k \in 1..n :
              filter_array[k] =>
                 \E c \in {k - 1, k, k + 1} : DoublyCompliant(c)
        /\ \A c \in 2..(n - 1) :
              DoublyCompliant(c) =>
                 filter_array[c - 1] /\ filter_array[c] /\ filter_array[c + 1]

\* Exactly three points survive, around the only doubly-compliant point,
\* while another accepted transition elsewhere saves nobody.
C27_Witness ==
    /\ GradientReturned
    /\ Len(power_array) = 3
    /\ Cardinality({c \in 2..(n - 1) : DoublyCompliant(c)}) = 1
    /\ \E j \in 1..(n - 1) :
          Accepted(j) /\ ~filter_array[j] /\ ~filter_array[j + 1]

\* -------------------------------------------- length of the mask (C28)
\* The loop of the gradient filter is over and the mask has been built.
MaskBuilt == InGradientCall /\ n >= 1 /\ pc \in {"done", "raised"}

\* C28: for every non-empty input of n points the keep-mask has exactly n
\* entries, so that it is applied to the n-point power and time sequences
\* and the filter returns.
C28_MaskHasOneEntryPerPoint ==
    MaskBuilt => Len(filter_array) = n /\ pc = "done"

\* ------------------------------------------------- elapsed time (C29)
\* The gradient filter is running on the text of the envelope's timestamps.
SlopesComputed == entry = "time_array.strftime" /\ pc = "gradient_loop"

\* The points as sampled have strictly increasing timestamps.
StrictlyIncreasingInput ==
    \A k \in 1..(Len(data_in) - 1) : data_in[k].ts < data_in[k + 1].ts

\* C29: for every series with strictly increasing timestamps at second or
\* finer resolution, the elapsed time the gradient filter takes between
\* two consecutive envelope points is strictly positive, so that no slope
\* is a division by zero.
C29_ElapsedTimePositive ==
    (SlopesComputed /\ StrictlyIncreasingInput) =>
        \A k \in 1..(n - 1) : time_array[k + 1] - time_array[k] > 0

====
